---- MODULE Spec2Model ----
(***************************************************************************)
(* Model of src/utils.py of rdcleanr: tabout, read_mq_map, CreateTempDir   *)
(* and RemoveDir.  Text is modelled as sequences of one-character strings, *)
(* so that strip(), split("\t"), int(), str() and "\t".join() are computed *)
(* character by character as Python computes them.                         *)
(***************************************************************************)
EXTENDS Integers, Sequences, FiniteSets, TLC

VARIABLES pc,          \* position of the running call
          mapfile,     \* read_mq_map: the lines of the file named mapname
          exists,      \* read_mq_map: whether mapname can be opened
          chromosome,  \* read_mq_map: argument
          length,      \* read_mq_map: argument
          mqmap,       \* read_mq_map: the bitarray under construction
          lineno,      \* read_mq_map: index of the next line of the for loop
          handle,      \* read_mq_map: state of the file object f
          exc,         \* read_mq_map: exception in flight / propagated
          result,      \* read_mq_map: {} until return, then {mask}
          fs,          \* RemoveDir/CreateTempDir: the file system
          path,        \* RemoveDir: argument
          stderr,      \* RemoveDir: lines printed to stderr
          exitStatus,  \* RemoveDir: {} while the process runs, then {status}
          args,        \* tabout: argument tuple
          output,      \* tabout: the list built by the comprehension
          ret          \* tabout: {} until return, then {string}

vars == <<pc, mapfile, exists, chromosome, length, mqmap, lineno, handle, exc,
          result, fs, path, stderr, exitStatus, args, output, ret>>

readVars == <<mapfile, exists, chromosome, length, mqmap, lineno, handle, exc, result>>
dirVars == <<fs, path, stderr, exitStatus>>
tabVars == <<args, output, ret>>

(***************************************************************************)
(* Bounds                                                                  *)
(***************************************************************************)
MaxLines == 2
MaxLength == 3
MaxArgs == 2

(***************************************************************************)
(* Characters and Python string primitives                                 *)
(***************************************************************************)
TAB == "\t"
Whitespace == {" ", "\t", "\n", "\r"}
Digits == <<"0", "1", "2", "3", "4", "5", "6", "7", "8", "9">>
DigitSet == {Digits[k] : k \in 1..10}
DigitVal(c) == (CHOOSE k \in 1..10 : Digits[k] = c) - 1

\* str.strip(): drop leading and trailing whitespace
RECURSIVE LStrip(_)
LStrip(s) == IF Len(s) > 0 /\ s[1] \in Whitespace THEN LStrip(Tail(s)) ELSE s
RECURSIVE RStrip(_)
RStrip(s) ==
    IF Len(s) > 0 /\ s[Len(s)] \in Whitespace THEN RStrip(SubSeq(s, 1, Len(s) - 1)) ELSE s
Strip(s) == RStrip(LStrip(s))

\* str.split(sep): always at least one field, empty fields are kept
RECURSIVE SplitFrom(_, _, _, _)
SplitFrom(s, sep, k, cur) ==
    IF k > Len(s) THEN <<cur>>
    ELSE IF s[k] = sep THEN <<cur>> \o SplitFrom(s, sep, k + 1, <<>>)
    ELSE SplitFrom(s, sep, k + 1, Append(cur, s[k]))
Split(s, sep) == SplitFrom(s, sep, 1, <<>>)

\* sep.join(list)
RECURSIVE Join(_, _)
Join(sep, list) ==
    IF Len(list) = 0 THEN <<>>
    ELSE IF Len(list) = 1 THEN list[1]
    ELSE list[1] \o <<sep>> \o Join(sep, Tail(list))

\* int(text): surrounding whitespace, an optional sign, one or more digits
Unsigned(s) == IF Len(s) > 0 /\ s[1] \in {"+", "-"} THEN Tail(s) ELSE s
IsInt(text) ==
    LET u == Unsigned(Strip(text))
    IN  Len(u) > 0 /\ \A k \in 1..Len(u) : u[k] \in DigitSet
RECURSIVE DigitsVal(_)
DigitsVal(s) ==
    IF Len(s) = 0 THEN 0
    ELSE 10 * DigitsVal(SubSeq(s, 1, Len(s) - 1)) + DigitVal(s[Len(s)])
ToInt(text) ==
    LET t == Strip(text)
        u == Unsigned(t)
    IN  IF Len(t) > 0 /\ t[1] = "-" THEN 0 - DigitsVal(u) ELSE DigitsVal(u)

(***************************************************************************)
(* read_mq_map                                                             *)
(***************************************************************************)
\* bitarray([0] * length)
NewBitarray(n) == [k \in 1..n |-> FALSE]

\* slice.indices(len) for one bound of a step-1 slice
SliceIndex(x, n) ==
    IF x < 0 THEN (IF x + n < 0 THEN 0 ELSE x + n)
    ELSE IF x > n THEN n ELSE x

\* mutants of SetSlice: stop taken as inclusive of one bit less; no clamping of
\* stop, as for a list slice that grows; the slice replaces the whole mask
SetSlice_short(mq, start, stop) ==
    LET lo == SliceIndex(start, Len(mq))
        hi == SliceIndex(stop, Len(mq)) - 1
    IN  IF hi <= lo THEN mq
        ELSE SubSeq(mq, 1, lo) \o [k \in 1..(hi - lo) |-> TRUE] \o SubSeq(mq, hi + 1, Len(mq))
SetSlice_grow(mq, start, stop) ==
    LET lo == SliceIndex(start, Len(mq))
        hi == IF stop < 0 THEN SliceIndex(stop, Len(mq)) ELSE stop
    IN  IF hi <= lo THEN mq
        ELSE SubSeq(mq, 1, lo) \o [k \in 1..(hi - lo) |-> TRUE] \o SubSeq(mq, hi + 1, Len(mq))
SetSlice_replace(mq, start, stop) ==
    LET lo == SliceIndex(start, Len(mq))
        hi == SliceIndex(stop, Len(mq))
    IN  [k \in 1..Len(mq) |-> lo < k /\ k <= hi]

\* mqmap[start:stop] = True
SetSlice(mq, start, stop) ==
    LET lo == SliceIndex(start, Len(mq))
        hi == SliceIndex(stop, Len(mq))
    IN  IF hi <= lo THEN mq
        ELSE SubSeq(mq, 1, lo) \o [k \in 1..(hi - lo) |-> TRUE] \o SubSeq(mq, hi + 1, Len(mq))

\* mutants of ProcessLine: the chromosome is compared by prefix; coordinates
\* outside 0 <= start <= stop <= length are rejected; the chromosome is compared
\* before the field count; the coordinates are parsed before the comparison
IsPrefix(a, b) == Len(a) <= Len(b) /\ SubSeq(b, 1, Len(a)) = a
ProcessLine_prefix(mq, line, chrom) ==
    LET fields == Split(Strip(line), TAB)
    IN  IF Len(fields) # 3 THEN [err |-> "ValueError", mq |-> mq]
        ELSE IF IsPrefix(chrom, fields[1])
        THEN IF IsInt(fields[2]) /\ IsInt(fields[3])
             THEN [err |-> "none", mq |-> SetSlice(mq, ToInt(fields[2]), ToInt(fields[3]))]
             ELSE [err |-> "ValueError", mq |-> mq]
        ELSE [err |-> "none", mq |-> mq]
ProcessLine_strict(mq, line, chrom) ==
    LET fields == Split(Strip(line), TAB)
    IN  IF Len(fields) # 3 THEN [err |-> "ValueError", mq |-> mq]
        ELSE IF fields[1] = chrom
        THEN IF /\ IsInt(fields[2]) /\ IsInt(fields[3])
                /\ 0 <= ToInt(fields[2]) /\ ToInt(fields[2]) <= ToInt(fields[3])
                /\ ToInt(fields[3]) <= Len(mq)
             THEN [err |-> "none", mq |-> SetSlice(mq, ToInt(fields[2]), ToInt(fields[3]))]
             ELSE [err |-> "ValueError", mq |-> mq]
        ELSE [err |-> "none", mq |-> mq]
ProcessLine_chromfirst(mq, line, chrom) ==
    LET fields == Split(Strip(line), TAB)
    IN  IF fields[1] # chrom THEN [err |-> "none", mq |-> mq]
        ELSE IF Len(fields) # 3 THEN [err |-> "ValueError", mq |-> mq]
        ELSE IF IsInt(fields[2]) /\ IsInt(fields[3])
             THEN [err |-> "none", mq |-> SetSlice(mq, ToInt(fields[2]), ToInt(fields[3]))]
             ELSE [err |-> "ValueError", mq |-> mq]
ProcessLine_parsefirst(mq, line, chrom) ==
    LET fields == Split(Strip(line), TAB)
    IN  IF Len(fields) # 3 THEN [err |-> "ValueError", mq |-> mq]
        ELSE IF ~(IsInt(fields[2]) /\ IsInt(fields[3])) THEN [err |-> "ValueError", mq |-> mq]
        ELSE IF fields[1] = chrom
        THEN [err |-> "none", mq |-> SetSlice(mq, ToInt(fields[2]), ToInt(fields[3]))]
        ELSE [err |-> "none", mq |-> mq]

\* the body of the for loop, lines 32-34
ProcessLine(mq, line, chrom) ==
    LET fields == Split(Strip(line), TAB)
    IN  IF Len(fields) # 3 THEN [err |-> "ValueError", mq |-> mq]
        ELSE IF fields[1] = chrom
        THEN IF IsInt(fields[2]) /\ IsInt(fields[3])
             THEN [err |-> "none", mq |-> SetSlice(mq, ToInt(fields[2]), ToInt(fields[3]))]
             ELSE [err |-> "ValueError", mq |-> mq]
        ELSE [err |-> "none", mq |-> mq]

\* mutant of WithExit: the file object is left as it is
WithExit_leak(h) == h

\* leaving the with block: the file object is closed
WithExit(h) == "closed"

\* the whole call on an openable file: {} when it raises, {mask} when it returns
RECURSIVE Scan(_, _, _, _)
Scan(mq, lines, k, chrom) ==
    IF k > Len(lines) THEN {mq}
    ELSE LET r == ProcessLine(mq, lines[k], chrom)
         IN  IF r.err # "none" THEN {} ELSE Scan(r.mq, lines, k + 1, chrom)
read_mq_map(lines, chrom, len) == Scan(NewBitarray(len), lines, 1, chrom)

\* inputs of the model: the lines a mappability file is made of
L3(c, a, b) == c \o <<TAB>> \o a \o <<TAB>> \o b
LineSet ==
    { L3(<<"a">>, <<"0">>, <<"2">>),
      L3(<<"a">>, <<"1">>, <<"3">>) \o <<"\n">>,
      L3(<<"a">>, <<"2">>, <<"1", "2">>),
      L3(<<"a">>, <<"2">>, <<"1">>),
      L3(<<"a">>, <<"-", "2">>, <<"3">>),
      L3(<<"a">>, <<"-", "3">>, <<"-", "1">>),
      L3(<<"a">>, <<"x">>, <<"2">>),
      L3(<<"a">>, <<"1">>, <<>>),
      <<"a", TAB, "1">>,
      L3(<<" ", "a">>, <<"+", "1">>, <<" ", "2", " ">>),
      L3(<<"a">>, <<"1">>, <<"2">>) \o <<TAB, "3">>,
      <<"\n">>,
      L3(<<"b">>, <<"0">>, <<"3">>),
      L3(<<"b">>, <<"9">>, <<"1", "2">>),
      L3(<<"b">>, <<"x">>, <<"y">>),
      <<"b", TAB, "1">>,
      L3(<<"a", "b">>, <<"0">>, <<"1">>) }
Files == UNION {[1..n -> LineSet] : n \in 0..MaxLines}
Chromosomes == {<<"a">>, <<"b">>}

\* the other calls are not running
NoRead ==
    /\ mapfile = <<>> /\ exists = FALSE /\ chromosome = <<>> /\ length = 0
    /\ mqmap = <<>> /\ lineno = 0 /\ handle = "none" /\ exc = "none" /\ result = {}
NoDir == fs = <<>> /\ path = "" /\ stderr = <<>> /\ exitStatus = {}
NoTab == args = <<>> /\ output = <<>> /\ ret = {}

InitRead ==
    /\ pc = "read_call"
    /\ mapfile \in Files
    /\ exists \in BOOLEAN
    /\ chromosome \in Chromosomes
    /\ length \in 0..MaxLength
    /\ mqmap = <<>> /\ lineno = 0 /\ handle = "none" /\ exc = "none" /\ result = {}
    /\ NoDir /\ NoTab

\* line 27
Construct ==
    /\ pc = "read_call"
    /\ mqmap' = NewBitarray(length)
    /\ pc' = "open"
    /\ UNCHANGED <<mapfile, exists, chromosome, length, lineno, handle, exc, result>>
    /\ UNCHANGED <<dirVars, tabVars>>

\* line 30: open(mapname, 'r') and entry of the with block
Open ==
    /\ pc = "open"
    /\ IF exists
       THEN /\ handle' = "open" /\ lineno' = 1 /\ pc' = "loop" /\ exc' = exc
       ELSE /\ handle' = handle /\ lineno' = lineno /\ pc' = "raised" /\ exc' = "IOError"
    /\ UNCHANGED <<mapfile, exists, chromosome, length, mqmap, result>>
    /\ UNCHANGED <<dirVars, tabVars>>

\* lines 31-34: one iteration of the for loop
ReadLine ==
    /\ pc = "loop"
    /\ lineno <= Len(mapfile)
    /\ LET r == ProcessLine(mqmap, mapfile[lineno], chromosome)
       IN  IF r.err = "none"
           THEN /\ mqmap' = r.mq /\ lineno' = lineno + 1 /\ pc' = "loop" /\ exc' = exc
           ELSE /\ mqmap' = mqmap /\ lineno' = lineno /\ pc' = "unwinding" /\ exc' = r.err
    /\ UNCHANGED <<mapfile, exists, chromosome, length, handle, result>>
    /\ UNCHANGED <<dirVars, tabVars>>

\* line 30: the for loop is exhausted and the with block is left
EndWith ==
    /\ pc = "loop"
    /\ lineno > Len(mapfile)
    /\ handle' = WithExit(handle)
    /\ pc' = "return"
    /\ UNCHANGED <<mapfile, exists, chromosome, length, mqmap, lineno, exc, result>>
    /\ UNCHANGED <<dirVars, tabVars>>

\* line 30: an exception leaves the with block and propagates to the caller
Unwind ==
    /\ pc = "unwinding"
    /\ handle' = WithExit(handle)
    /\ pc' = "raised"
    /\ UNCHANGED <<mapfile, exists, chromosome, length, mqmap, lineno, exc, result>>
    /\ UNCHANGED <<dirVars, tabVars>>

\* line 36
Return ==
    /\ pc = "return"
    /\ result' = {mqmap}
    /\ pc' = "returned"
    /\ UNCHANGED <<mapfile, exists, chromosome, length, mqmap, lineno, handle, exc>>
    /\ UNCHANGED <<dirVars, tabVars>>

(***************************************************************************)
(* CreateTempDir and RemoveDir                                             *)
(***************************************************************************)
Paths == {"tmpA", "tmpB"}
\* what a path names: nothing, an empty directory, a directory with entries,
\* a regular file, or an empty directory the process may not remove
PathStates == {"absent", "empty", "nonempty", "file", "locked"}

\* os.rmdir(path): removes an empty directory, raises OSError otherwise
OsRmdir(fsys, p) ==
    IF fsys[p] = "empty"
    THEN [ok |-> TRUE, fs |-> [fsys EXCEPT ![p] = "absent"]]
    ELSE [ok |-> FALSE, fs |-> fsys]

\* mutant of AfterRmdir: the OSError is swallowed and the call returns
AfterRmdir_swallow(ok) == "main"

\* try/except of RemoveDir: fall off the end of the function, or enter the handler
AfterRmdir(ok) == IF ok THEN "main" ELSE "except"

\* exit(1)
ExitCode == 1

InitDir ==
    /\ pc = "main"
    /\ fs \in [Paths -> PathStates]
    /\ path = "" /\ stderr = <<>> /\ exitStatus = {}
    /\ NoRead /\ NoTab

\* lines 38-42: mkdtemp() makes a directory under a name that names nothing yet
CreateTempDir ==
    /\ pc = "main"
    /\ \E name \in Paths :
          /\ fs[name] = "absent"
          /\ fs' = [fs EXCEPT ![name] = "empty"]
    /\ UNCHANGED <<pc, path, stderr, exitStatus>>
    /\ UNCHANGED <<readVars, tabVars>>

\* line 44: the caller calls RemoveDir(p)
CallRemoveDir ==
    /\ pc = "main"
    /\ \E p \in Paths : path' = p
    /\ pc' = "rmdir"
    /\ UNCHANGED <<fs, stderr, exitStatus>>
    /\ UNCHANGED <<readVars, tabVars>>

\* lines 45-47
Rmdir ==
    /\ pc = "rmdir"
    /\ LET r == OsRmdir(fs, path)
       IN  /\ fs' = r.fs
           /\ pc' = AfterRmdir(r.ok)
    /\ UNCHANGED <<path, stderr, exitStatus>>
    /\ UNCHANGED <<readVars, tabVars>>

\* line 48: the format string is printed as it is
PrintError ==
    /\ pc = "except"
    /\ stderr' = Append(stderr, "%s does not exist. Could not remove.")
    /\ pc' = "exit"
    /\ UNCHANGED <<fs, path, exitStatus>>
    /\ UNCHANGED <<readVars, tabVars>>

\* line 49
Exit ==
    /\ pc = "exit"
    /\ exitStatus' = {ExitCode}
    /\ pc' = "terminated"
    /\ UNCHANGED <<fs, path, stderr>>
    /\ UNCHANGED <<readVars, tabVars>>

(***************************************************************************)
(* tabout                                                                  *)
(***************************************************************************)
None == [t |-> "None", n |-> 0, s |-> <<>>]
IntVal(k) == [t |-> "int", n |-> k, s |-> <<>>]
StrVal(text) == [t |-> "str", n |-> 0, s |-> text]

\* str(x) of a non-negative int
RECURSIVE NatToStr(_)
NatToStr(k) ==
    IF k < 10 THEN <<Digits[k + 1]>> ELSE NatToStr(k \div 10) \o <<Digits[(k % 10) + 1]>>
\* str(x): decimal digits of an int, the text itself of a str
Str(x) ==
    IF x.t = "int" THEN (IF x.n < 0 THEN <<"-">> \o NatToStr(0 - x.n) ELSE NatToStr(x.n))
    ELSE IF x.t = "str" THEN x.s
    ELSE <<"N", "o", "n", "e">>

\* mutant of Render: None goes through str() like the rest
Render_str(x) == Str(x)

\* line 16: 'NA' if x is None else str(x)
Render(x) == IF x.t = "None" THEN <<"N", "A">> ELSE Str(x)

ArgValues ==
    { None, IntVal(0), IntVal(0 - 12), StrVal(<<"N", "A">>), StrVal(<<"a", TAB, "b">>),
      StrVal(<<>>), StrVal(<<"x">>) }
ArgLists == UNION {[1..n -> ArgValues] : n \in 0..MaxArgs}

InitTab ==
    /\ pc = "tab_call"
    /\ args \in ArgLists
    /\ output = <<>> /\ ret = {}
    /\ NoRead /\ NoDir

\* line 16
Comprehension ==
    /\ pc = "tab_call"
    /\ output' = [k \in 1..Len(args) |-> Render(args[k])]
    /\ pc' = "tab_join"
    /\ UNCHANGED <<args, ret>>
    /\ UNCHANGED <<readVars, dirVars>>

\* line 17
JoinReturn ==
    /\ pc = "tab_join"
    /\ ret' = {Join(TAB, output)}
    /\ pc' = "tab_returned"
    /\ UNCHANGED <<args, output>>
    /\ UNCHANGED <<readVars, dirVars>>

Init == InitRead \/ InitDir \/ InitTab

Next ==
    \/ Construct \/ Open \/ ReadLine \/ EndWith \/ Unwind \/ Return
    \/ CreateTempDir \/ CallRemoveDir \/ Rmdir \/ PrintError \/ Exit
    \/ Comprehension \/ JoinReturn

Spec == Init /\ [][Next]_vars

(***************************************************************************)
(* Properties of read_mq_map                                               *)
(***************************************************************************)
Fields(line) == Split(Strip(line), TAB)
ThreeField(line) == Len(Fields(line)) = 3
Matching(line) == ThreeField(line) /\ Fields(line)[1] = chromosome
NonTarget(line) == ThreeField(line) /\ Fields(line)[1] # chromosome
IntCoords(line) == IsInt(Fields(line)[2]) /\ IsInt(Fields(line)[3])
StartOf(line) == ToInt(Fields(line)[2])
StopOf(line) == ToInt(Fields(line)[3])
LineNos == 1..Len(mapfile)
Positions == 0..(length - 1)
\* p lies in [start, stop) of the line as written
Covers(line, p) == StartOf(line) <= p /\ p < StopOf(line)
\* p lies in the slice the line selects in a mask of `length` bits
SliceCovers(line, p) ==
    SliceIndex(StartOf(line), length) <= p /\ p < SliceIndex(StopOf(line), length)
InBounds(line) ==
    0 <= StartOf(line) /\ StartOf(line) <= StopOf(line) /\ StopOf(line) <= length
SomeBitSet(mq) == \E k \in 1..Len(mq) : mq[k]
TargetOnly(lines) == SelectSeq(lines, LAMBDA l : ~NonTarget(l))
Perms(n) == {f \in [1..n -> 1..n] : \A x, y \in 1..n : f[x] = f[y] => x = y}
Reorder(lines, f) == [k \in 1..Len(lines) |-> lines[f[k]]]

\* C1 as stated: in a returned mask, every position 0 <= p < length inside
\* [start, stop) of some matching line is true.
C1_Original ==
    pc = "returned" =>
        \A m \in result : \A p \in Positions :
            (\E k \in LineNos : Matching(mapfile[k]) /\ Covers(mapfile[k], p)) => m[p + 1]

\* C1 amended: in a returned mask, every position 0 <= p < length inside
\* [start, stop) of a matching line with a non-negative start is true, however
\* many ranges cover it; for any matching line, every position inside the slice
\* it selects (a negative bound counted from the end of the mask) is true.
C1_Covered ==
    pc = "returned" =>
        \A m \in result : \A p \in Positions : \A k \in LineNos :
            Matching(mapfile[k]) =>
                /\ (StartOf(mapfile[k]) >= 0 /\ Covers(mapfile[k], p)) => m[p + 1]
                /\ SliceCovers(mapfile[k], p) => m[p + 1]

C1_Witness ==
    /\ pc = "returned"
    /\ \E m \in result : \E p \in Positions : \E j, k \in LineNos :
          /\ j # k /\ mapfile[j] # mapfile[k]
          /\ Matching(mapfile[j]) /\ Matching(mapfile[k])
          /\ StartOf(mapfile[j]) >= 0 /\ StartOf(mapfile[k]) >= 0
          /\ Covers(mapfile[j], p) /\ Covers(mapfile[k], p)
          /\ m[p + 1]

\* C2 as stated: in a returned mask, every position 0 <= p < length outside
\* [start, stop) of every matching line is false.
C2_Original ==
    pc = "returned" =>
        \A m \in result : \A p \in Positions :
            ~(\E k \in LineNos : Matching(mapfile[k]) /\ Covers(mapfile[k], p)) => ~m[p + 1]

\* C2 amended: in a returned mask, every position outside the slice selected by
\* every matching line is false; when no matching line has a negative
\* coordinate, every position outside [start, stop) of every matching line is
\* false.
C2_Uncovered ==
    pc = "returned" =>
        \A m \in result : \A p \in Positions :
            /\ ~(\E k \in LineNos : Matching(mapfile[k]) /\ SliceCovers(mapfile[k], p))
                  => ~m[p + 1]
            /\ (/\ \A k \in LineNos : Matching(mapfile[k]) =>
                       StartOf(mapfile[k]) >= 0 /\ StopOf(mapfile[k]) >= 0
                /\ ~(\E k \in LineNos : Matching(mapfile[k]) /\ Covers(mapfile[k], p)))
                  => ~m[p + 1]

C2_Witness ==
    /\ pc = "returned"
    /\ \E m \in result : \E p \in Positions :
          /\ ~m[p + 1]
          /\ SomeBitSet(m)
          /\ \E k \in LineNos : NonTarget(mapfile[k]) /\ IntCoords(mapfile[k])
                                   /\ Covers(mapfile[k], p)
          /\ \A k \in LineNos : Matching(mapfile[k]) =>
                 StartOf(mapfile[k]) >= 0 /\ StopOf(mapfile[k]) >= 0

\* C3: from its construction on, the mask holds exactly `length` bits: all false
\* right after construction, after every processed line, and when returned.
C3_MaskLength ==
    /\ pc \in {"open", "loop", "unwinding", "return", "returned", "raised"}
          => Len(mqmap) = length
    /\ pc = "open" => \A k \in 1..length : ~mqmap[k]
    /\ \A m \in result : Len(m) = length /\ DOMAIN m = 1..length

C3_Witness ==
    /\ pc = "loop" /\ lineno > 1
    /\ Matching(mapfile[lineno - 1])
    /\ StopOf(mapfile[lineno - 1]) > length
    /\ StartOf(mapfile[lineno - 1]) < length
    /\ Len(mqmap) = length

\* C4 as stated: no mask is returned when a matching line has integer
\* coordinates that violate 0 <= start <= stop <= length.
C4_Original ==
    pc \in {"return", "returned"} =>
        ~(\E k \in LineNos : Matching(mapfile[k]) /\ IntCoords(mapfile[k])
                                /\ ~InBounds(mapfile[k]))

\* C4 amended: the values of integer coordinates never make the call fail: when
\* the file opens, every line splits into three fields and the coordinates of
\* every matching line parse as integers, no exception is raised, also when
\* start is negative, stop exceeds length or start > stop.
C4_NoRangeError ==
    (/\ exists
     /\ \A k \in LineNos : ThreeField(mapfile[k])
     /\ \A k \in LineNos : Matching(mapfile[k]) => IntCoords(mapfile[k]))
        => pc \notin {"unwinding", "raised"} /\ exc = "none"

C4_Witness ==
    /\ pc = "returned"
    /\ \E j, k \in LineNos :
          /\ Matching(mapfile[j]) /\ IntCoords(mapfile[j]) /\ StartOf(mapfile[j]) < 0
          /\ Matching(mapfile[k]) /\ IntCoords(mapfile[k])
          /\ (StopOf(mapfile[k]) > length \/ StartOf(mapfile[k]) > StopOf(mapfile[k]))

\* C5: if any line, of the target chromosome or not, does not split into
\* exactly three fields after stripping, the scan never gets past that line and
\* no mask, not even a partial one, is returned.
C5_Malformed ==
    \A k \in LineNos :
        ~ThreeField(mapfile[k]) =>
            /\ lineno <= k
            /\ pc \notin {"return", "returned"}
            /\ result = {}

C5_Witness ==
    /\ pc = "raised" /\ exc = "ValueError" /\ handle = "closed"
    /\ lineno > 1
    /\ ~ThreeField(mapfile[lineno])
    /\ Fields(mapfile[lineno])[1] # chromosome
    /\ SomeBitSet(mqmap)
    /\ result = {}

\* C6: processing a three-field line of another chromosome leaves the mask
\* unchanged and raises nothing, whatever its start and stop fields; so the
\* returned mask is the mask of the file without its non-target lines.
C6_StepFrame ==
    (pc = "loop" /\ lineno <= Len(mapfile) /\ NonTarget(mapfile[lineno]))
        => (mqmap' = mqmap /\ pc' = "loop" /\ exc' = "none" /\ lineno' = lineno + 1)
C6_NonTarget ==
    /\ [][C6_StepFrame]_vars
    /\ [](pc = "returned" => result = read_mq_map(TargetOnly(mapfile), chromosome, length))

C6_Witness ==
    /\ pc = "returned"
    /\ \E m \in result : SomeBitSet(m)
    /\ \E k \in LineNos : NonTarget(mapfile[k]) /\ ~IntCoords(mapfile[k])

\* C7: a file with the same lines in another order gives the same mask.
C7_OrderIndependent ==
    pc = "returned" =>
        /\ \A f \in Perms(Len(mapfile)) :
              read_mq_map(Reorder(mapfile, f), chromosome, length) = result
        /\ \A f \in Perms(Len(TargetOnly(mapfile))) :
              read_mq_map(Reorder(TargetOnly(mapfile), f), chromosome, length) = result

C7_Witness ==
    /\ pc = "returned"
    /\ Len(mapfile) >= 2
    /\ Matching(mapfile[1]) /\ Matching(mapfile[2]) /\ mapfile[1] # mapfile[2]
    /\ \E p \in Positions :
          Covers(mapfile[1], p) /\ ~Covers(mapfile[2], p) /\ StartOf(mapfile[1]) >= 0
    /\ \E p \in Positions :
          Covers(mapfile[2], p) /\ ~Covers(mapfile[1], p) /\ StartOf(mapfile[2]) >= 0

\* C8: the file handle is closed in every state where the call has left the
\* with block: before the return and after it, and when an exception has
\* propagated out of the scan.
C8_HandleReleased ==
    pc \in {"return", "returned", "raised"} => handle # "open"

C8_Witness ==
    /\ pc = "raised" /\ exc = "ValueError" /\ handle = "closed"
    /\ Matching(mapfile[lineno]) /\ ~IntCoords(mapfile[lineno])
    /\ lineno > 1

(***************************************************************************)
(* Properties of RemoveDir                                                 *)
(***************************************************************************)
\* C9: RemoveDir returns to its caller only when os.rmdir removed the
\* directory; when removal fails (path missing, not empty, not a directory, not
\* removable) control goes to the handler, from there only to exit, and the
\* process terminates with status 1.
C9_Step ==
    /\ (pc = "rmdir" /\ fs[path] # "empty") => (pc' = "except" /\ fs' = fs)
    /\ (pc = "rmdir" /\ pc' = "main") => (fs[path] = "empty" /\ fs'[path] = "absent")
    /\ pc = "except" => pc' = "exit"
    /\ pc = "exit" => (pc' = "terminated" /\ exitStatus' = {1})
    /\ pc = "terminated" => pc' = "terminated"
C9_RemoveOrExit ==
    /\ [][C9_Step]_vars
    /\ [](pc = "terminated" => exitStatus = {1})
    /\ [](pc \in {"main", "rmdir", "except", "exit"} => exitStatus = {})

C9_Witness ==
    /\ pc = "terminated" /\ exitStatus = {1}
    /\ fs[path] = "nonempty"
    /\ \E p \in Paths : fs[p] = "absent"
    /\ Len(stderr) = 1

(***************************************************************************)
(* Properties of tabout                                                    *)
(***************************************************************************)
Expected(x) == IF x = None THEN <<"N", "A">> ELSE Str(x)
RECURSIVE CountTabs(_)
CountTabs(text) ==
    IF Len(text) = 0 THEN 0
    ELSE (IF text[1] = TAB THEN 1 ELSE 0) + CountTabs(Tail(text))
RECURSIVE TabsInArgs(_)
TabsInArgs(list) ==
    IF Len(list) = 0 THEN 0 ELSE CountTabs(Expected(list[1])) + TabsInArgs(Tail(list))

\* C10 as stated: the result is the empty string for no argument and, for
\* n >= 1 arguments, has exactly n tab-separated fields and n-1 tabs, field k
\* being NA for None and the string form of argument k otherwise.
C10_Original ==
    pc = "tab_returned" =>
        \A r \in ret :
            /\ Len(args) = 0 => r = <<>>
            /\ Len(args) >= 1 =>
                  /\ Len(Split(r, TAB)) = Len(args)
                  /\ CountTabs(r) = Len(args) - 1
                  /\ \A k \in 1..Len(args) : Split(r, TAB)[k] = Expected(args[k])

\* C10 amended: the result is the empty string for no argument; for n >= 1
\* arguments it holds n-1 separating tabs besides the tabs of the arguments'
\* own string forms, and when no string form holds a tab it has exactly n
\* fields, field k being NA for None and the string form of argument k
\* otherwise.
C10_Joined ==
    pc = "tab_returned" =>
        \A r \in ret :
            /\ Len(args) = 0 => r = <<>>
            /\ Len(args) >= 1 =>
                  /\ CountTabs(r) = (Len(args) - 1) + TabsInArgs(args)
                  /\ Len(Split(r, TAB)) = Len(args) + TabsInArgs(args)
                  /\ TabsInArgs(args) = 0 =>
                        \A k \in 1..Len(args) : Split(r, TAB)[k] = Expected(args[k])

C10_Witness ==
    /\ pc = "tab_returned"
    /\ Len(args) = 2
    /\ args[1] = None /\ args[2].t = "int" /\ args[2].n < 0
    /\ \E r \in ret : Len(Split(r, TAB)) = 2 /\ Split(r, TAB)[1] = <<"N", "A">>
====
